---- MODULE Spec2Model ----
(***************************************************************************)
(* CodeActAgent (agenthub/codeact_agent/codeact_agent.py): one call of     *)
(* CodeActAgent.step as a state machine, with the history renderer, the    *)
(* response decoder and the context-overflow recovery it is made of.       *)
(*                                                                         *)
(* Texts are sequences of lexemes.  A lexeme is a Python string that the   *)
(* code treats as a unit: a markup tag, a run of whitespace, a word.  No   *)
(* lexeme is a prefix of another and no tag can be formed across the       *)
(* boundary of two lexemes, so `in`, re.search, str.replace and str.strip  *)
(* on the Python string are the same operations on the lexeme sequence.    *)
(* A closing tag cut short by the completion service is the lexeme made of *)
(* the closing tag without its final ">".                                  *)
(***************************************************************************)
EXTENDS Integers, Sequences, FiniteSets, TLC

VARIABLES
    history,          \* state.history: the sequence of events
    history0,         \* state.history as it was when step was called
    iteration,        \* state.iteration
    max_iterations,   \* state.max_iterations
    num_of_chars,     \* state.num_of_chars
    max_input_tokens, \* config.llm.max_input_tokens: None or "set"
    messages,         \* step's local `messages` (empty before it is set)
    response,         \* step's local `response`
    attempt,          \* step's local `attempt` (0 before it is set)
    summary_action,   \* _retry_with_condense's local `summary_action`
    trigger,          \* which caller _retry_with_condense returns to
    action_str,       \* step's local `action_str` (empty before it is set)
    action,           \* the action step returned
    error,            \* the exception step raised
    pc,               \* the position of step
    completion_outcome, \* what the last call of llm.completion did
    completion_calls, \* calls of llm.completion in this step
    condense_calls,   \* calls of memory_condenser.condense in this step
    splice_calls,     \* calls of replace_events_with_summary in this step
    render_calls,     \* calls of _get_messages in this step
    over_limit_calls, \* calls of is_over_token_limit in this step
    arg_observation, \* truncate_observation's argument `observation`
    arg_max_chars, \* truncate_observation's argument `max_chars`
    truncated         \* what truncate_observation returned (empty before)

vars == <<history, history0, iteration, max_iterations, num_of_chars,
          max_input_tokens, messages, response, attempt, summary_action,
          trigger, action_str, action, error, pc, completion_outcome,
          completion_calls, condense_calls, splice_calls, render_calls,
          over_limit_calls, arg_observation, arg_max_chars, truncated>>

(***************************************************************************)
(* Bounds of the model.                                                    *)
(***************************************************************************)
\* longest completion text, in lexemes, of the decoder's specification
MaxTextLen == 4
\* longest history, in events, at the call of step
MaxHistory == 2
\* longest history at the call of step, where termination is checked
MaxFairHistory == 1
\* the call counters stop counting here (they saturate, the code goes on)
MaxCalls == 4
\* longest observation content, in characters, given to truncate_observation
MaxObsLen == 4
\* largest ceiling given to truncate_observation
MaxCeiling == 5
\* longest history, in events, where the renderer is checked on every variant
MaxRenderHistory == 2

None == [type |-> "None"]
Unset == [type |-> "Unset"]

Min(S) == CHOOSE x \in S : \A y \in S : x <= y
Max(S) == CHOOSE x \in S : \A y \in S : x >= y
Count(n) == IF n < MaxCalls THEN n + 1 ELSE MaxCalls

(***************************************************************************)
(* Python's str operations, on lexeme sequences.                           *)
(***************************************************************************)
Whitespace == {" ", "\n"}

RECURSIVE lstrip(_)
lstrip(s) ==
    IF s # <<>> /\ Head(s) \in Whitespace THEN lstrip(Tail(s)) ELSE s

RECURSIVE rstrip(_)
rstrip(s) ==
    IF s # <<>> /\ s[Len(s)] \in Whitespace
    THEN rstrip(SubSeq(s, 1, Len(s) - 1))
    ELSE s

\* str.strip()
strip(s) == rstrip(lstrip(s))

\* `tag in s`, for a tag
Contains(s, tag) == \E i \in 1..Len(s) : s[i] = tag

\* s.replace(old, ''): every non-overlapping occurrence of old, left to right
RECURSIVE str_replace(_, _)
str_replace(s, old) ==
    IF Len(s) < Len(old) \/ old = <<>> THEN s
    ELSE IF SubSeq(s, 1, Len(old)) = old
         THEN str_replace(SubSeq(s, Len(old) + 1, Len(s)), old)
         ELSE <<Head(s)>> \o str_replace(Tail(s), old)

\* len(s) of the Python string: the characters of its lexemes
RECURSIVE len(_)
len(s) == IF s = <<>> THEN 0 ELSE Len(Head(s)) + len(Tail(s))

(***************************************************************************)
(* re.search of an opening tag, a dot-star group and a closing tag, with   *)
(* re.DOTALL, the group greedy or not: the                                 *)
(* leftmost opening tag that has a closing tag after it, up to the last    *)
(* (greedy) or the first (non-greedy) closing tag after it.                *)
(***************************************************************************)
re_search(s, open, close, greedy) ==
    LET starts == {i \in 1..Len(s) :
                      s[i] = open /\ \E j \in (i + 1)..Len(s) : s[j] = close}
    IN  IF starts = {} THEN None
        ELSE LET i == Min(starts)
                 ends == {j \in (i + 1)..Len(s) : s[j] = close}
                 j == IF greedy THEN Max(ends) ELSE Min(ends)
             IN  [type |-> "Match", start |-> i, end |-> j,
                  group0 |-> SubSeq(s, i, j),
                  group1 |-> SubSeq(s, i + 1, j - 1)]

(***************************************************************************)
(* The markup grammar.                                                     *)
(***************************************************************************)
Langs == <<"bash", "ipython", "browse">>
OpenTag(lang) == "<execute_" \o lang \o ">"
CloseTag(lang) == "</execute_" \o lang \o ">"
\* a closing tag that generation stopped in: all of it but the final ">"
CutCloseTag(lang) == "</execute_" \o lang
FinishOpen == "<finish>"
FinishClose == "</finish>"

(***************************************************************************)
(* The actions step returns.  `source` is set by the event stream later.   *)
(***************************************************************************)
AgentFinishAction(thought) ==
    [type |-> "AgentFinishAction", thought |-> thought, source |-> "none"]
CmdRunAction(command, thought) ==
    [type |-> "CmdRunAction", command |-> command, thought |-> thought,
     source |-> "none"]
IPythonRunCellAction(code, thought, kernel_init_code) ==
    [type |-> "IPythonRunCellAction", code |-> code, thought |-> thought,
     kernel_init_code |-> kernel_init_code, source |-> "none"]
BrowseInteractiveAction(browser_actions, thought) ==
    [type |-> "BrowseInteractiveAction", browser_actions |-> browser_actions,
     thought |-> thought, source |-> "none"]
MessageAction(content, wait_for_response) ==
    [type |-> "MessageAction", content |-> content,
     wait_for_response |-> wait_for_response, source |-> "none"]
AgentSummarizeAction(summary) ==
    [type |-> "AgentSummarizeAction", summary |-> summary, source |-> "none"]

jupyter_kernel_init_code == <<"from agentskills import *">>

(***************************************************************************)
(* parse_response: the text of the response, with the closing tag of each  *)
(* family appended when its opening tag is there and its closing tag not.  *)
(***************************************************************************)
repair_always(a, lang) ==
    IF ~Contains(a, CloseTag(lang)) THEN Append(a, CloseTag(lang)) ELSE a

repair(a, lang) ==
    IF Contains(a, OpenTag(lang)) /\ ~Contains(a, CloseTag(lang))
    THEN Append(a, CloseTag(lang))
    ELSE a

parse_response(resp) ==
    repair(repair(repair(resp.content, Langs[1]), Langs[2]), Langs[3])

(***************************************************************************)
(* The decoder: step from its first re.search to its last return, on       *)
(* text, the value of action_str.                                          *)
(***************************************************************************)
search_finish(text) ==
    re_search(text, FinishOpen, FinishClose, TRUE)
search_bash(text) ==
    re_search(text, OpenTag("bash"), CloseTag("bash"), FALSE)
search_ipython(text) ==
    re_search(text, OpenTag("ipython"), CloseTag("ipython"), FALSE)
search_browse(text) ==
    re_search(text, OpenTag("browse"), CloseTag("browse"), TRUE)

\* the thought of a matched rule
thought_of(text, match) == strip(str_replace(text, match.group0))

is_exit_startswith(command_group) ==
    strip(command_group) # <<>> /\ Head(strip(command_group)) = "exit"

\* command_group.strip() == 'exit'
is_exit(command_group) == strip(command_group) = <<"exit">>

decode_finish(text) ==
    AgentFinishAction(thought_of(text, search_finish(text)))

decode_bash(text) ==
    LET bash_command == search_bash(text)
        thought == thought_of(text, bash_command)
        command_group == strip(bash_command.group1)
    IN  IF is_exit(command_group)
        THEN AgentFinishAction(<<>>)
        ELSE CmdRunAction(command_group, thought)

decode_ipython(text) ==
    LET python_code == search_ipython(text)
        code_group == strip(python_code.group1)
        thought == thought_of(text, python_code)
    IN  IPythonRunCellAction(code_group, thought, jupyter_kernel_init_code)

decode_browse(text) ==
    LET browse_command == search_browse(text)
        browse_actions == strip(browse_command.group1)
        thought == thought_of(text, browse_command)
    IN  BrowseInteractiveAction(browse_actions, thought)

decode_execute_first(text) ==
    IF search_bash(text) # None THEN decode_bash(text)
    ELSE IF search_ipython(text) # None THEN decode_ipython(text)
    ELSE IF search_browse(text) # None THEN decode_browse(text)
    ELSE IF search_finish(text) # None THEN decode_finish(text)
    ELSE MessageAction(text, TRUE)

decode(text) ==
    IF search_finish(text) # None THEN decode_finish(text)
    ELSE IF search_bash(text) # None THEN decode_bash(text)
    ELSE IF search_ipython(text) # None THEN decode_ipython(text)
    ELSE IF search_browse(text) # None THEN decode_browse(text)
    ELSE MessageAction(text, TRUE)

(***************************************************************************)
(* The observations of the history.                                        *)
(***************************************************************************)
CmdOutputObservation(content, command_id, exit_code) ==
    [type |-> "CmdOutputObservation", content |-> content,
     command_id |-> command_id, exit_code |-> exit_code]
IPythonRunCellObservation(content) ==
    [type |-> "IPythonRunCellObservation", content |-> content]
BrowserOutputObservation(content) ==
    [type |-> "BrowserOutputObservation", content |-> content]
SummaryObservation(content) ==
    [type |-> "SummaryObservation", content |-> content]
\* an observation variant the renderer does not map
NullObservation == [type |-> "NullObservation", content |-> <<>>]

\* isinstance(event, Action)
ActionTypes ==
    {"AgentFinishAction", "AgentSummarizeAction", "BrowseInteractiveAction",
     "CmdRunAction", "IPythonRunCellAction", "MessageAction"}
IsAction(event) == event.type \in ActionTypes

(***************************************************************************)
(* truncate_observation, on a text whose lexemes are single characters.    *)
(* observation[-half:] is the whole text when half is 0.                   *)
(***************************************************************************)
DefaultMaxChars == 10000
TruncationMarker ==
    <<"\n", "[... Observation truncated due to length ...]", "\n">>

truncate_observation(observation, max_chars) ==
    IF len(observation) <= max_chars THEN observation
    ELSE LET half == max_chars \div 2
             n == Len(observation)
         IN  SubSeq(observation, 1, half)
             \o TruncationMarker
             \o (IF half = 0 THEN observation
                 ELSE SubSeq(observation, n - half + 1, n))

(***************************************************************************)
(* action_to_str, get_action_message, get_observation_message.             *)
(***************************************************************************)
action_to_str(a) ==
    IF a.type = "CmdRunAction"
    THEN a.thought \o <<"\n", OpenTag("bash"), "\n">> \o a.command
         \o <<"\n", CloseTag("bash")>>
    ELSE IF a.type = "IPythonRunCellAction"
    THEN a.thought \o <<"\n", OpenTag("ipython"), "\n">> \o a.code
         \o <<"\n", CloseTag("ipython")>>
    ELSE IF a.type = "BrowseInteractiveAction"
    THEN a.thought \o <<"\n", OpenTag("browse"), "\n">> \o a.browser_actions
         \o <<"\n", CloseTag("browse")>>
    ELSE IF a.type = "MessageAction" THEN a.content
    ELSE <<>>

Message(role, content) == [type |-> "Message", role |-> role, content |-> content]

get_action_message(a) ==
    IF a.type \in {"BrowseInteractiveAction", "CmdRunAction",
                   "IPythonRunCellAction", "MessageAction",
                   "AgentSummarizeAction"}
    THEN Message(IF a.source = "user" THEN "user" ELSE "assistant",
                 action_to_str(a))
    ELSE None

ObservationPrefix == <<"OBSERVATION:", "\n">>
ImageMarker == "![image](data:image/png;base64,"
ImagePlaceholder ==
    "![image](data:image/png;base64, ...) already displayed to user"

\* content.split('\n')
RECURSIVE split_lines(_)
split_lines(s) ==
    IF ~Contains(s, "\n") THEN <<s>>
    ELSE LET i == Min({k \in 1..Len(s) : s[k] = "\n"})
         IN  <<SubSeq(s, 1, i - 1)>> \o split_lines(SubSeq(s, i + 1, Len(s)))

\* '\n'.join(splitted)
RECURSIVE join_lines(_)
join_lines(lines) ==
    IF Len(lines) = 1 THEN lines[1]
    ELSE lines[1] \o <<"\n">> \o join_lines(Tail(lines))

replace_images(content) ==
    LET splitted == split_lines(content)
    IN  join_lines([i \in 1..Len(splitted) |->
                       IF Contains(splitted[i], ImageMarker)
                       THEN <<ImagePlaceholder>>
                       ELSE splitted[i]])

exit_code_line(obs) ==
    <<"\n", "[Command " \o ToString(obs.command_id)
            \o " finished with exit code " \o ToString(obs.exit_code)
            \o "]]">>

get_observation_message(obs) ==
    IF obs.type = "CmdOutputObservation"
    THEN Message("user",
                 ObservationPrefix
                 \o truncate_observation(obs.content, DefaultMaxChars)
                 \o exit_code_line(obs))
    ELSE IF obs.type = "IPythonRunCellObservation"
    THEN Message("user",
                 truncate_observation(
                     replace_images(ObservationPrefix \o obs.content),
                     DefaultMaxChars))
    ELSE IF obs.type = "BrowserOutputObservation"
    THEN Message("user",
                 ObservationPrefix
                 \o truncate_observation(obs.content, DefaultMaxChars))
    ELSE IF obs.type = "SummaryObservation"
    THEN Message("user", obs.content)
    ELSE None

(***************************************************************************)
(* The fixed prompt texts.  SYSTEM_PREFIX, GITHUB_MESSAGE, COMMAND_DOCS,   *)
(* SYSTEM_SUFFIX and EXAMPLES are imported texts, each one lexeme here.    *)
(***************************************************************************)
ENABLE_GITHUB == TRUE

get_system_message ==
    IF ENABLE_GITHUB
    THEN <<"{SYSTEM_PREFIX}", "\n", "{GITHUB_MESSAGE}", "\n", "\n",
           "{COMMAND_DOCS}", "\n", "\n", "{SYSTEM_SUFFIX}">>
    ELSE <<"{SYSTEM_PREFIX}", "\n", "\n", "{COMMAND_DOCS}", "\n", "\n",
           "{SYSTEM_SUFFIX}">>

get_in_context_example == <<"{EXAMPLES}">>

system_message == get_system_message

in_context_example ==
    <<"Here is an example of how you can interact with the environment for task solving:",
      "\n">> \o get_in_context_example \o <<"\n", "\n", "NOW, LET'S START!">>

(***************************************************************************)
(* _get_messages.                                                          *)
(***************************************************************************)
\* the message of one event, or None
event_message(event) ==
    IF IsAction(event) THEN get_action_message(event)
    ELSE get_observation_message(event)

\* the loop over state.history
RECURSIVE render_events(_)
render_events(h) ==
    IF h = <<>> THEN <<>>
    ELSE LET message == event_message(Head(h))
         IN  (IF message # None THEN <<message>> ELSE <<>>)
             \o render_events(Tail(h))

\* the messages before the reminder is appended
base_messages(h) ==
    <<Message("system", system_message),
      Message("user", in_context_example)>> \o render_events(h)

latest_user_index_last(msgs) == Len(msgs)

\* next((m for m in reversed(messages) if m['role'] == 'user'), None), as
\* an index into messages; 0 for None
latest_user_index(msgs) ==
    LET users == {i \in 1..Len(msgs) : msgs[i].role = "user"}
    IN  IF users = {} THEN 0 ELSE Max(users)

ExitSentinel == <<"/exit">>

reminder(turns_left) ==
    <<"\n", "\n",
      "ENVIRONMENT REMINDER: You have " \o ToString(turns_left)
      \o " turns left to complete the task.">>

_get_messages_always_remind(h, it, maxit) ==
    LET msgs == base_messages(h)
        k == latest_user_index(msgs)
    IN  IF k = 0 THEN msgs
        ELSE [msgs EXCEPT ![k].content = @ \o reminder(maxit - it)]

_get_messages(h, it, maxit) ==
    LET msgs == base_messages(h)
        k == latest_user_index(msgs)
    IN  IF k = 0 THEN msgs
        ELSE IF strip(msgs[k].content) = ExitSentinel THEN msgs
        ELSE [msgs EXCEPT ![k].content = @ \o reminder(maxit - it)]

(***************************************************************************)
(* The collaborators.  The summarizer (MemoryCondenser.condense) returns   *)
(* None or a summary of a span of the history, and the history sink        *)
(* (replace_events_with_summary) puts the summary event in the place of    *)
(* that span.                                                              *)
(***************************************************************************)
\* self.memory_condenser, set by __init__
memory_condenser == TRUE

\* config.llm.max_input_tokens when it is configured
TokenLimit == [type |-> "int"]

SummaryEvent ==
    [AgentSummarizeAction(<<"summary">>) EXCEPT !.source = "agent"]

\* what condense(events) can return
condense(events) ==
    {None} \cup
    {[type |-> "Summary", action |-> SummaryEvent, start |-> sp[1],
      end |-> sp[2]] :
        sp \in {x \in (1..Len(events)) \X (1..Len(events)) : x[1] <= x[2]}}

replace_events_with_summary(events, summary) ==
    SubSeq(events, 1, summary.start - 1)
    \o <<summary.action>>
    \o SubSeq(events, summary.end + 1, Len(events))

\* a response of the completion service
ModelResponse(content) == [type |-> "ModelResponse", content |-> content]

\* the completion texts of a turn
Responses ==
    {<<"I will list files.", "\n", OpenTag("bash"), "\n", "ls -la", "\n",
       CloseTag("bash")>>,
     <<OpenTag("ipython"), "print(1)">>,
     <<"Done.", FinishOpen, FinishClose>>,
     <<"Which file?">>}

\* the failures of the completion service
CompletionErrors == {"ContextWindowExceededError", "RateLimitError"}

(***************************************************************************)
(* The states step can be called in.                                       *)
(***************************************************************************)
FromUser(a) == [a EXCEPT !.source = "user"]
FromAgent(a) == [a EXCEPT !.source = "agent"]

Events ==
    {FromUser(MessageAction(<<"/exit">>, FALSE)),
     FromUser(MessageAction(<<" ", "/exit", "\n">>, FALSE)),
     FromUser(MessageAction(<<"fix the bug">>, FALSE)),
     FromAgent(CmdRunAction(<<"ls">>, <<"look">>)),
     CmdOutputObservation(<<"a.py">>, 1, 0),
     SummaryObservation(<<"/exit">>),
     FromAgent(AgentFinishAction(<<>>))}

SeqsUpTo(S, n) == UNION {[1..k -> S] : k \in 0..n}

Histories == SeqsUpTo(Events, MaxHistory)

\* the attempts of step's loop: `attempt < 3`
AttemptLimit == 3

RECURSIVE sum_len(_)
sum_len(msgs) ==
    IF msgs = <<>> THEN 0 ELSE len(Head(msgs).content) + sum_len(Tail(msgs))

Init ==
    /\ history \in Histories
    /\ history0 = history
    /\ iteration = Len(history)
    /\ max_iterations = MaxHistory + 1
    /\ num_of_chars = 0
    /\ max_input_tokens \in {None, TokenLimit}
    /\ messages = <<>>
    /\ response = Unset
    /\ attempt = 0
    /\ summary_action = Unset
    /\ trigger = "none"
    /\ action_str = <<>>
    /\ action = Unset
    /\ error = "none"
    /\ pc = "step"
    /\ completion_outcome = "none"
    /\ completion_calls = 0
    /\ condense_calls = 0
    /\ splice_calls = 0
    /\ render_calls = 0
    /\ over_limit_calls = 0
    /\ arg_observation = <<>>
    /\ arg_max_chars = DefaultMaxChars
    /\ truncated = <<>>

state_vars == <<history, iteration, max_iterations, num_of_chars>>
formatter_vars == <<arg_observation, arg_max_chars, truncated>>
config_vars == <<history0, max_input_tokens>>

(***************************************************************************)
(* step, statement by statement.                                           *)
(***************************************************************************)
Render_aliased ==
    /\ pc = "step"
    /\ messages' = _get_messages(history, iteration, max_iterations)
    /\ history' =
          IF history # <<>> /\ history[Len(history)].type = "MessageAction"
          THEN [history EXCEPT ![Len(history)].content =
                    @ \o reminder(max_iterations - iteration)]
          ELSE history
    /\ render_calls' = Count(render_calls)
    /\ pc' = "check_limit"
    /\ UNCHANGED <<iteration, max_iterations, num_of_chars, config_vars,
                   formatter_vars, response, attempt, summary_action,
                   trigger, action_str, action, error, completion_outcome,
                   completion_calls, condense_calls, splice_calls,
                   over_limit_calls>>

\* messages = self._get_messages(state), on entry
Render ==
    /\ pc = "step"
    /\ messages' = _get_messages(history, iteration, max_iterations)
    /\ render_calls' = Count(render_calls)
    /\ pc' = "check_limit"
    /\ UNCHANGED <<state_vars, config_vars, formatter_vars,
                   response, attempt,
                   summary_action, trigger, action_str, action, error,
                   completion_outcome, completion_calls, condense_calls,
                   splice_calls, over_limit_calls>>

\* the pre-emptive test: the token ceiling is configured and exceeded
CheckLimit ==
    /\ pc = "check_limit"
    /\ IF max_input_tokens # None /\ memory_condenser
       THEN \E over \in BOOLEAN :
               /\ over_limit_calls' = Count(over_limit_calls)
               /\ IF over
                  THEN pc' = "condense" /\ trigger' = "preemptive"
                  ELSE pc' = "check_exit" /\ trigger' = trigger
       ELSE pc' = "check_exit" /\ UNCHANGED <<over_limit_calls, trigger>>
    /\ UNCHANGED <<state_vars, config_vars, formatter_vars,
                   messages, response, attempt,
                   summary_action, action_str, action, error,
                   completion_outcome, completion_calls, condense_calls,
                   splice_calls, render_calls>>

\* _retry_with_condense: summary_action = self.memory_condenser.condense(events)
Condense ==
    /\ pc = "condense"
    /\ IF memory_condenser
       THEN /\ \E s \in condense(history) : summary_action' = s
            /\ condense_calls' = Count(condense_calls)
       ELSE UNCHANGED <<summary_action, condense_calls>>
    /\ pc' = "condensed"
    /\ UNCHANGED <<state_vars, config_vars, formatter_vars,
                   messages, response, attempt,
                   trigger, action_str, action, error, completion_outcome,
                   completion_calls, splice_calls, render_calls,
                   over_limit_calls>>

SpliceOrRaise_swallow ==
    /\ pc = "condensed"
    /\ IF memory_condenser /\ summary_action # None
       THEN /\ history' = replace_events_with_summary(history, summary_action)
            /\ splice_calls' = Count(splice_calls)
       ELSE UNCHANGED <<history, splice_calls>>
    /\ pc' = "rerender"
    /\ UNCHANGED <<history0, iteration, max_iterations, num_of_chars,
                   formatter_vars, max_input_tokens, messages, response, attempt,
                   summary_action, trigger, action_str, action, error,
                   completion_outcome, completion_calls, condense_calls,
                   render_calls, over_limit_calls>>

SpliceOrRaise_wipe ==
    /\ pc = "condensed"
    /\ IF memory_condenser /\ summary_action # None
       THEN /\ history' = replace_events_with_summary(history, summary_action)
            /\ splice_calls' = Count(splice_calls)
            /\ pc' = "rerender"
            /\ error' = error
       ELSE /\ error' = "ContextWindowLimit"
            /\ pc' = "raised"
            /\ history' = <<>>
            /\ splice_calls' = splice_calls
    /\ UNCHANGED <<history0, iteration, max_iterations, num_of_chars,
                   formatter_vars, max_input_tokens, messages, response,
                   attempt, summary_action, trigger, action_str, action,
                   completion_outcome, completion_calls, condense_calls,
                   render_calls, over_limit_calls>>

\* _retry_with_condense: the splice and return, or raise ContextWindowLimit
SpliceOrRaise ==
    /\ pc = "condensed"
    /\ IF memory_condenser /\ summary_action # None
       THEN /\ history' = replace_events_with_summary(history, summary_action)
            /\ splice_calls' = Count(splice_calls)
            /\ pc' = "rerender"
            /\ error' = error
       ELSE /\ error' = "ContextWindowLimit"
            /\ pc' = "raised"
            /\ UNCHANGED <<history, splice_calls>>
    /\ UNCHANGED <<history0, iteration, max_iterations, num_of_chars,
                   formatter_vars, max_input_tokens, messages, response, attempt,
                   summary_action, trigger, action_str, action,
                   completion_outcome, completion_calls, condense_calls,
                   render_calls, over_limit_calls>>

ReRender_stale ==
    /\ pc = "rerender"
    /\ pc' = IF trigger = "preemptive" THEN "check_exit" ELSE "while"
    /\ UNCHANGED <<state_vars, config_vars, formatter_vars, messages,
                   response, attempt, summary_action, trigger, action_str,
                   action, error, completion_outcome, completion_calls,
                   condense_calls, splice_calls, render_calls,
                   over_limit_calls>>

\* messages = self._get_messages(state), after _retry_with_condense returned
ReRender ==
    /\ pc = "rerender"
    /\ messages' = _get_messages(history, iteration, max_iterations)
    /\ render_calls' = Count(render_calls)
    /\ pc' = IF trigger = "preemptive" THEN "check_exit" ELSE "while"
    /\ UNCHANGED <<state_vars, config_vars, formatter_vars,
                   response, attempt,
                   summary_action, trigger, action_str, action, error,
                   completion_outcome, completion_calls, condense_calls,
                   splice_calls, over_limit_calls>>

\* the exit sentinel test of step, on the content of a message
is_exit_message(content) == strip(content) = ExitSentinel

\* the exit short-circuit; else response = None, attempt = 0
CheckExit ==
    /\ pc = "check_exit"
    /\ LET k == latest_user_index(messages)
       IN  IF k # 0 /\ is_exit_message(messages[k].content)
           THEN /\ action' = AgentFinishAction(<<>>)
                /\ pc' = "returned"
                /\ UNCHANGED <<response, attempt>>
           ELSE /\ response' = None
                /\ attempt' = 0
                /\ pc' = "while"
                /\ action' = action
    /\ UNCHANGED <<state_vars, config_vars, formatter_vars,
                   messages, summary_action,
                   trigger, action_str, error, completion_outcome,
                   completion_calls, condense_calls, splice_calls,
                   render_calls, over_limit_calls>>

\* while not response and attempt < 3
While ==
    /\ pc = "while"
    /\ pc' = IF response = None /\ attempt < AttemptLimit
             THEN "completion" ELSE "parse"
    /\ UNCHANGED <<state_vars, config_vars, formatter_vars,
                   messages, response, attempt,
                   summary_action, trigger, action_str, action, error,
                   completion_outcome, completion_calls, condense_calls,
                   splice_calls, render_calls, over_limit_calls>>

\* self.llm.completion returns a response
CompletionReturns ==
    /\ pc = "completion"
    /\ completion_calls' = Count(completion_calls)
    /\ \E text \in Responses : response' = ModelResponse(text)
    /\ completion_outcome' = "response"
    /\ pc' = "while"
    /\ UNCHANGED <<state_vars, config_vars, formatter_vars,
                   messages, attempt,
                   summary_action, trigger, action_str, action, error,
                   condense_calls, splice_calls, render_calls,
                   over_limit_calls>>

\* self.llm.completion returns a response that is falsy
CompletionReturnsFalsy ==
    /\ pc = "completion"
    /\ completion_calls' = Count(completion_calls)
    /\ response' = None
    /\ completion_outcome' = "falsy"
    /\ pc' = "while"
    /\ UNCHANGED <<state_vars, config_vars, formatter_vars,
                   messages, attempt,
                   summary_action, trigger, action_str, action, error,
                   condense_calls, splice_calls, render_calls,
                   over_limit_calls>>

caught_any(exc) == TRUE

\* except ContextWindowExceededError
caught(exc) == exc = "ContextWindowExceededError"

CompletionRaises_counts ==
    /\ pc = "completion"
    /\ completion_calls' = Count(completion_calls)
    /\ num_of_chars' = num_of_chars + sum_len(messages)
    /\ \E exc \in CompletionErrors :
          /\ completion_outcome' = exc
          /\ IF caught(exc)
             THEN /\ IF memory_condenser
                     THEN pc' = "condense" /\ trigger' = "reactive"
                     ELSE pc' = "while" /\ trigger' = trigger
                  /\ error' = error
             ELSE /\ error' = exc
                  /\ pc' = "raised"
                  /\ trigger' = trigger
    /\ UNCHANGED <<history, iteration, max_iterations, config_vars,
                   formatter_vars, messages, response, attempt,
                   summary_action, action_str, action, condense_calls,
                   splice_calls, render_calls, over_limit_calls>>

\* self.llm.completion raises
CompletionRaises ==
    /\ pc = "completion"
    /\ completion_calls' = Count(completion_calls)
    /\ \E exc \in CompletionErrors :
          /\ completion_outcome' = exc
          /\ IF caught(exc)
             THEN /\ IF memory_condenser
                     THEN pc' = "condense" /\ trigger' = "reactive"
                     ELSE pc' = "while" /\ trigger' = trigger
                  /\ error' = error
             ELSE /\ error' = exc
                  /\ pc' = "raised"
                  /\ trigger' = trigger
    /\ UNCHANGED <<state_vars, config_vars, formatter_vars,
                   messages, response, attempt,
                   summary_action, action_str, action, condense_calls,
                   splice_calls, render_calls, over_limit_calls>>

\* action_str = parse_response(response); state.num_of_chars += ...
Parse ==
    /\ pc = "parse"
    /\ IF response = None
       THEN /\ error' = "AttributeError"
            /\ pc' = "raised"
            /\ UNCHANGED <<action_str, num_of_chars>>
       ELSE /\ action_str' = parse_response(response)
            /\ num_of_chars' = num_of_chars + sum_len(messages)
                               + len(action_str')
            /\ pc' = "decode"
            /\ error' = error
    /\ UNCHANGED <<history, iteration, max_iterations, config_vars,
                   formatter_vars,
                   messages, response, attempt, summary_action, trigger,
                   action, completion_outcome, completion_calls,
                   condense_calls, splice_calls, render_calls,
                   over_limit_calls>>

\* the decoder: the re.search chain and its return
Decode ==
    /\ pc = "decode"
    /\ action' = decode(action_str)
    /\ pc' = "returned"
    /\ UNCHANGED <<state_vars, config_vars, formatter_vars,
                   messages, response, attempt,
                   summary_action, trigger, action_str, error,
                   completion_outcome, completion_calls, condense_calls,
                   splice_calls, render_calls, over_limit_calls>>

Next ==
    \/ Render
    \/ CheckLimit
    \/ Condense
    \/ SpliceOrRaise
    \/ ReRender
    \/ CheckExit
    \/ While
    \/ CompletionReturns
    \/ CompletionReturnsFalsy
    \/ CompletionRaises
    \/ Parse
    \/ Decode

Spec == Init /\ [][Next]_vars

\* The calls of step whose history holds at most MaxFairHistory events.
FairInit == Init /\ Len(history) <= MaxFairHistory

\* step is sequential code: while it has a next statement, it runs it
FairSpec == FairInit /\ [][Next]_vars /\ WF_vars(Next)

(***************************************************************************)
(* The decoder on every completion text: step on an empty history, from    *)
(* the return of its first completion call.                                *)
(***************************************************************************)
DecodeLexemes ==
    {FinishOpen, FinishClose, " ", "exit", "ls"}
    \cup {OpenTag(Langs[i]) : i \in 1..3}
    \cup {CloseTag(Langs[i]) : i \in 1..3}
    \cup {CutCloseTag(Langs[i]) : i \in 1..3}

Texts == SeqsUpTo(DecodeLexemes, MaxTextLen)

DecodeInit ==
    /\ history = <<>>
    /\ history0 = <<>>
    /\ iteration = 0
    /\ max_iterations = MaxHistory + 1
    /\ num_of_chars = 0
    /\ max_input_tokens = None
    /\ messages = _get_messages(<<>>, 0, MaxHistory + 1)
    /\ \E text \in Texts : response = ModelResponse(text)
    /\ attempt = 0
    /\ summary_action = Unset
    /\ trigger = "none"
    /\ action_str = <<>>
    /\ action = Unset
    /\ error = "none"
    /\ pc = "while"
    /\ completion_outcome = "response"
    /\ completion_calls = 1
    /\ condense_calls = 0
    /\ splice_calls = 0
    /\ render_calls = 1
    /\ over_limit_calls = 0
    /\ arg_observation = <<>>
    /\ arg_max_chars = DefaultMaxChars
    /\ truncated = <<>>

DecodeNext ==
    \/ While
    \/ Parse
    \/ Decode

SpecDecode == DecodeInit /\ [][DecodeNext]_vars

(***************************************************************************)
(* truncate_observation on every content of up to MaxObsLen characters and *)
(* every ceiling up to MaxCeiling.  The contents are sequences of          *)
(* one-character lexemes.                                                  *)
(***************************************************************************)
Chars == {"a", "b", "c"}

Contents == SeqsUpTo(Chars, MaxObsLen)

TruncateInit ==
    /\ arg_observation \in Contents
    /\ arg_max_chars \in 0..MaxCeiling
    /\ truncated = <<>>
    /\ pc = "truncate_observation"
    /\ history = <<>>
    /\ history0 = <<>>
    /\ iteration = 0
    /\ max_iterations = MaxHistory + 1
    /\ num_of_chars = 0
    /\ max_input_tokens = None
    /\ messages = <<>>
    /\ response = Unset
    /\ attempt = 0
    /\ summary_action = Unset
    /\ trigger = "none"
    /\ action_str = <<>>
    /\ action = Unset
    /\ error = "none"
    /\ completion_outcome = "none"
    /\ completion_calls = 0
    /\ condense_calls = 0
    /\ splice_calls = 0
    /\ render_calls = 0
    /\ over_limit_calls = 0

\* a call of truncate_observation(observation, max_chars)
Truncate ==
    /\ pc = "truncate_observation"
    /\ truncated' = truncate_observation(arg_observation, arg_max_chars)
    /\ pc' = "truncated"
    /\ UNCHANGED <<state_vars, config_vars, arg_observation, arg_max_chars,
                   messages, response, attempt, summary_action, trigger,
                   action_str, action, error, completion_outcome,
                   completion_calls, condense_calls, splice_calls,
                   render_calls, over_limit_calls>>

TruncateNext ==
    \/ Truncate

SpecTruncate == TruncateInit /\ [][TruncateNext]_vars

(***************************************************************************)
(* The renderer on histories of every event variant: step from its call to *)
(* its exit test, with the pre-emptive recovery and its re-render.         *)
(***************************************************************************)
RenderEvents ==
    {FromUser(MessageAction(<<"/exit">>, FALSE)),
     FromUser(MessageAction(<<"fix the bug">>, FALSE)),
     FromAgent(MessageAction(<<"Which file?">>, TRUE)),
     FromAgent(CmdRunAction(<<"ls">>, <<"look">>)),
     FromAgent(IPythonRunCellAction(<<"print(1)">>, <<>>,
                                    jupyter_kernel_init_code)),
     FromAgent(BrowseInteractiveAction(<<"goto('x')">>, <<"open it">>)),
     SummaryEvent,
     FromAgent(AgentFinishAction(<<>>)),
     CmdOutputObservation(<<"a.py">>, 1, 0),
     IPythonRunCellObservation(<<"1", "\n", ImageMarker, "iVBORw0KGgo=)">>),
     BrowserOutputObservation(<<"<html>">>),
     SummaryObservation(<<"summary of the first events">>),
     NullObservation}

RenderHistories == SeqsUpTo(RenderEvents, MaxRenderHistory)

RenderInit ==
    /\ history \in RenderHistories
    /\ history0 = history
    /\ iteration = Len(history)
    /\ max_iterations = MaxRenderHistory + 1
    /\ num_of_chars = 0
    /\ max_input_tokens \in {None, TokenLimit}
    /\ messages = <<>>
    /\ response = Unset
    /\ attempt = 0
    /\ summary_action = Unset
    /\ trigger = "none"
    /\ action_str = <<>>
    /\ action = Unset
    /\ error = "none"
    /\ pc = "step"
    /\ completion_outcome = "none"
    /\ completion_calls = 0
    /\ condense_calls = 0
    /\ splice_calls = 0
    /\ render_calls = 0
    /\ over_limit_calls = 0
    /\ arg_observation = <<>>
    /\ arg_max_chars = DefaultMaxChars
    /\ truncated = <<>>

RenderNext ==
    \/ Render
    \/ CheckLimit
    \/ Condense
    \/ SpliceOrRaise
    \/ ReRender
    \/ CheckExit

SpecRender == RenderInit /\ [][RenderNext]_vars

(***************************************************************************)
(* Properties.                                                             *)
(***************************************************************************)
Ended == pc \in {"returned", "raised"}

\* the latest user message of msgs is the exit sentinel, trimmed
LatestUserIsExit(msgs) ==
    \E k \in 1..Len(msgs) :
        /\ msgs[k].role = "user"
        /\ \A k2 \in (k + 1)..Len(msgs) : msgs[k2].role # "user"
        /\ strip(msgs[k].content) = ExitSentinel

\* s has an opening tag with a closing tag somewhere after it
HasSpan(s, open, close) ==
    \E i \in 1..Len(s) : \E j \in (i + 1)..Len(s) : s[i] = open /\ s[j] = close

HasFinishSpan(s) == HasSpan(s, FinishOpen, FinishClose)
HasExecuteSpan(s, lang) == HasSpan(s, OpenTag(lang), CloseTag(lang))

\* C1: within one call of step, llm.completion is called at most 3 times,
\* whatever the completion service and the summarizer do; here in the case
\* the claim names: no token ceiling is configured, every completion call
\* so far raised context-window-exceeded and the summarizer returned a
\* summary each time (every call was followed by a splice).
C1_AtMostThreeCompletionCalls ==
    (max_input_tokens = None /\ splice_calls >= completion_calls)
        => completion_calls <= AttemptLimit

\* C2: every call of step terminates: it returns an action or raises, for
\* any behaviour of the collaborators; here for the behaviours in which the
\* completion service never returns a falsy response.
C2_StepTerminates == <>(Ended \/ completion_outcome = "falsy")

\* C3: when the summarizer returns no summary, the next thing step does is
\* raise ContextWindowLimit, and from then on there is no completion call, no
\* splice of the history, no decoding and no change of num_of_chars.
C3_NoSummaryIsFatal ==
    [][/\ (pc = "condensed" /\ summary_action = None)
            => (pc' = "raised" /\ error' = "ContextWindowLimit")
       /\ ((pc = "condensed" /\ summary_action = None)
            \/ error = "ContextWindowLimit")
            => UNCHANGED <<completion_calls, splice_calls, history,
                           action_str, action, num_of_chars>>]_vars

\* C3 happens: a completion call failed with context-window-exceeded, the
\* summarizer returned None and step raised ContextWindowLimit.
C3_Witness ==
    /\ pc = "raised"
    /\ error = "ContextWindowLimit"
    /\ summary_action = None
    /\ trigger = "reactive"
    /\ completion_calls >= 1

\* C4: a completion failure other than context-window-exceeded ends step at
\* once with that failure: no condensation follows it, no further completion
\* call, no splice and no decoding.
C4_OtherFailurePropagates ==
    /\ [](completion_outcome \in CompletionErrors \ {"ContextWindowExceededError"}
            => /\ pc = "raised"
               /\ error = completion_outcome
               /\ action = Unset)
    /\ [][completion_outcome' \in CompletionErrors \ {"ContextWindowExceededError"}
            => UNCHANGED <<condense_calls, splice_calls, history,
                           num_of_chars, summary_action>>]_vars
    /\ [][(completion_outcome \in CompletionErrors \ {"ContextWindowExceededError"})
            => UNCHANGED <<completion_calls, condense_calls, splice_calls,
                           history, num_of_chars, action>>]_vars

\* C4 happens: the failure came on a later attempt, after a recovery.
C4_Witness ==
    /\ pc = "raised"
    /\ error = "RateLimitError"
    /\ completion_calls >= 2
    /\ splice_calls >= 1

\* the latest user message rendered from the history step was called with
\* is the exit sentinel
ExitAtCall == LatestUserIsExit(base_messages(history0))

\* step is past its exit test
PastExitTest ==
    pc \in {"while", "completion", "parse", "decode", "returned", "raised"}
    \/ (pc \in {"condense", "condensed", "rerender"} /\ trigger = "reactive")

\* the renderer appends no reminder when the latest user message is /exit
RendersExitUnchanged(h) ==
    LatestUserIsExit(base_messages(h))
        => _get_messages(h, iteration, max_iterations) = base_messages(h)

\* C5, as claimed: whenever the latest user message rendered from the
\* history is /exit, the renderer appends no reminder and step returns a
\* finish action without calling the completion service, also when the
\* token ceiling is configured and exceeded.
C5_ExitAlwaysFinishes ==
    /\ RendersExitUnchanged(history)
    /\ ExitAtCall =>
          /\ completion_calls = 0
          /\ pc # "raised"
          /\ Ended => action = AgentFinishAction(<<>>)

\* C5, amended: the renderer appends no reminder when the latest user
\* message is /exit; step returns a finish action without calling the
\* completion service whenever the messages it tests, rendered after the
\* pre-emptive recovery if that ran, have /exit as their latest user
\* message, and so whenever the history it was called with has and the
\* pre-emptive recovery does not run.
C5_ExitFinishesWithoutRecovery ==
    /\ RendersExitUnchanged(history)
    /\ (/\ pc \in {"while", "completion", "parse", "decode", "returned"}
        /\ completion_calls = 0
        /\ LatestUserIsExit(base_messages(history))) =>
          /\ pc = "returned"
          /\ action = AgentFinishAction(<<>>)
          /\ messages = base_messages(history)
    /\ (ExitAtCall /\ condense_calls = 0 /\ PastExitTest) =>
          /\ pc = "returned"
          /\ action = AgentFinishAction(<<>>)
          /\ completion_calls = 0
          /\ messages = base_messages(history0)

\* C5 happens: the ceiling is configured and not exceeded, the latest user
\* message is /exit with white space around it and is not the last message.
C5_Witness ==
    /\ pc = "returned"
    /\ ExitAtCall
    /\ condense_calls = 0
    /\ over_limit_calls = 1
    /\ Len(history0) = 2
    /\ history0[1].type = "MessageAction"
    /\ history0[1].content # ExitSentinel
    /\ history0[2].type = "CmdRunAction"
    /\ action.type = "AgentFinishAction"

\* the completion text of the turn
raw == response.content

\* C6: the four rules are tried in the order finish, bash, ipython, browse
\* and the first whose tag pair matches decides the variant, whatever other
\* tags the text holds and wherever they stand.
C6_RuleOrder ==
    pc = "returned" =>
        /\ HasFinishSpan(raw) => action.type = "AgentFinishAction"
        /\ (~HasFinishSpan(raw) /\ HasExecuteSpan(raw, "bash"))
              => action.type \in {"CmdRunAction", "AgentFinishAction"}
        /\ (~HasFinishSpan(action_str) /\ HasExecuteSpan(action_str, "bash"))
              => action.type \in {"CmdRunAction", "AgentFinishAction"}
        /\ (/\ ~HasFinishSpan(action_str)
            /\ ~HasExecuteSpan(action_str, "bash")
            /\ HasExecuteSpan(action_str, "ipython"))
              => action.type = "IPythonRunCellAction"
        /\ (/\ ~HasFinishSpan(action_str)
            /\ ~HasExecuteSpan(action_str, "bash")
            /\ ~HasExecuteSpan(action_str, "ipython")
            /\ HasExecuteSpan(action_str, "browse"))
              => action.type = "BrowseInteractiveAction"

\* C6 happens: a finish span after a complete bash span decodes to finish.
C6_Witness ==
    /\ pc = "returned"
    /\ raw = <<OpenTag("bash"), CloseTag("bash"), FinishOpen, FinishClose>>
    /\ action.type = "AgentFinishAction"

NoRuleMatches(s) ==
    /\ ~HasFinishSpan(s)
    /\ \A i \in 1..3 : ~HasExecuteSpan(s, Langs[i])

\* C7: decoding never raises and yields one action; when none of the four
\* rules matches, the action is a message awaiting a reply whose content is
\* the completion text verbatim.
C7_DecodingIsTotal ==
    /\ pc # "raised"
    /\ pc = "returned" =>
          /\ action.type \in {"AgentFinishAction", "CmdRunAction",
                              "IPythonRunCellAction",
                              "BrowseInteractiveAction", "MessageAction"}
          /\ NoRuleMatches(action_str) <=> action.type = "MessageAction"
          /\ action.type = "MessageAction" => action = MessageAction(raw, TRUE)

\* C7 happens: a text of malformed tags decodes to a message.
C7_Witness ==
    /\ pc = "returned"
    /\ raw = <<CloseTag("bash"), OpenTag("bash"), CutCloseTag("bash")>>
    /\ action = MessageAction(raw, TRUE)

\* lexemes that are markup
TagLexemes ==
    {FinishOpen, FinishClose}
    \cup {OpenTag(Langs[i]) : i \in 1..3}
    \cup {CloseTag(Langs[i]) : i \in 1..3}
    \cup {CutCloseTag(Langs[i]) : i \in 1..3}

\* s is prose, then the opening tag of lang, then a payload, and it ends
\* there or in the cut closing tag of lang; there is no other markup in it
IsTruncated(s, lang) ==
    \E i \in 1..Len(s) :
        /\ s[i] = OpenTag(lang)
        /\ \A k \in 1..Len(s) :
              (k # i /\ s[k] \in TagLexemes)
                  => (k = Len(s) /\ k > i /\ s[k] = CutCloseTag(lang))

\* the payload the model wrote in such a text
WrittenPayload(s, lang) ==
    LET i == CHOOSE k \in 1..Len(s) : s[k] = OpenTag(lang)
        n == IF s[Len(s)] = CutCloseTag(lang) THEN Len(s) - 1 ELSE Len(s)
    IN  strip(SubSeq(s, i + 1, n))

\* the action of family lang with payload p
IsFamilyAction(a, lang, p) ==
    IF lang = "bash"
    THEN IF p = <<"exit">> THEN a.type = "AgentFinishAction"
         ELSE a.type = "CmdRunAction" /\ a.command = p
    ELSE IF lang = "ipython"
    THEN a.type = "IPythonRunCellAction" /\ a.code = p
    ELSE a.type = "BrowseInteractiveAction" /\ a.browser_actions = p

\* C8: a text with an opening execute tag and not its complete closing tag,
\* also one that ends in the cut closing tag, decodes to that family's
\* action with the trimmed payload the model wrote, without any fragment
\* of the closing tag.
C8_TruncatedPayload ==
    pc = "returned" =>
        \A i \in 1..3 :
            IsTruncated(raw, Langs[i])
                => IsFamilyAction(action, Langs[i],
                                  WrittenPayload(raw, Langs[i]))

\* the payload of the first bash span of s, trimmed
FirstBashPayload(s) ==
    LET i == CHOOSE k \in 1..Len(s) :
                 /\ s[k] = OpenTag("bash")
                 /\ \E j \in (k + 1)..Len(s) : s[j] = CloseTag("bash")
                 /\ \A k2 \in 1..(k - 1) : s[k2] # OpenTag("bash")
        j == CHOOSE k \in (i + 1)..Len(s) :
                 /\ s[k] = CloseTag("bash")
                 /\ \A k2 \in (i + 1)..(k - 1) : s[k2] # CloseTag("bash")
    IN  strip(SubSeq(s, i + 1, j - 1))

BashRuleResult(s) ==
    IF FirstBashPayload(s) = <<"exit">>
    THEN action.type = "AgentFinishAction"
    ELSE action.type = "CmdRunAction" /\ action.command = FirstBashPayload(s)

\* C9: with no finish span, a first bash span whose payload trims to
\* exactly exit decodes to a finish action; any other trimmed payload
\* decodes to a run-command action with that payload as its command.
C9_BashExit ==
    (pc = "returned" /\ ~HasFinishSpan(raw)) =>
        /\ HasExecuteSpan(raw, "bash") => BashRuleResult(raw)
        /\ HasExecuteSpan(action_str, "bash") => BashRuleResult(action_str)

\* C9 happens: a payload of exit with white space around it is a finish.
C9_Witness ==
    /\ pc = "returned"
    /\ raw = <<OpenTag("bash"), " ", "exit", CloseTag("bash")>>
    /\ action.type = "AgentFinishAction"

\* the span the first matching rule matched in s
MatchedSpan(s) ==
    IF HasFinishSpan(s) THEN search_finish(s)
    ELSE IF HasExecuteSpan(s, "bash") THEN search_bash(s)
    ELSE IF HasExecuteSpan(s, "ipython") THEN search_ipython(s)
    ELSE search_browse(s)

\* C10: for every matched rule, the exit escape hatch included, the thought
\* is the text with the one matched span removed, then trimmed; a second
\* identical span elsewhere in the text stays in the thought.
C10_ThoughtIsTextWithoutSpan ==
    (pc = "returned" /\ ~NoRuleMatches(action_str)) =>
        LET m == MatchedSpan(action_str)
        IN  action.thought =
                strip(SubSeq(action_str, 1, m.start - 1)
                      \o SubSeq(action_str, m.end + 1, Len(action_str)))

\* C11: on a turn that decodes a completion, num_of_chars grows by the summed
\* content length of the messages of the successful attempt plus the length
\* of the raw response text, without what parse_response appended.
C11_CountsRawResponse ==
    [][(pc = "parse" /\ pc' = "decode")
          => num_of_chars' = num_of_chars + sum_len(messages) + len(raw)]_vars

\* the first n and the last n characters of a content
FirstChars(s, n) == SubSeq(s, 1, n)
LastChars(s, n) == SubSeq(s, Len(s) - n + 1, Len(s))

\* C12: truncate_observation returns the content unchanged when its length
\* is at most the ceiling, and otherwise the first ceiling/2 characters, the
\* marker and the last ceiling/2 characters, of length 2*(ceiling div 2) +
\* marker length; each half is empty for the ceilings 0 and 1.
C12_TruncateHalves ==
    pc = "truncated" =>
        LET half == arg_max_chars \div 2
        IN  IF len(arg_observation) <= arg_max_chars
            THEN truncated = arg_observation
            ELSE /\ truncated = FirstChars(arg_observation, half)
                                \o TruncationMarker
                                \o LastChars(arg_observation, half)
                 /\ len(truncated) = 2 * half + len(TruncationMarker)

\* the calls counted in a turn, but for the one a step is about
RecoveryCalls == <<condense_calls, splice_calls, render_calls>>

\* C13: each overflow trigger (the pre-emptive check, a context-window-
\* exceeded completion call) causes one call of the summarizer, then at most
\* one splice, then one re-render, before the next completion call; every
\* completion call is made with messages rendered from the history as it
\* is at the call; the pre-emptive check runs at most once per turn.
C13_OneRecoveryPerTrigger ==
    /\ [](over_limit_calls <= 1)
    /\ [](pc = "completion"
            => messages = _get_messages(history, iteration, max_iterations))
    /\ [][pc' = "condense"
            => /\ \/ pc = "check_limit" /\ trigger' = "preemptive"
                  \/ /\ pc = "completion"
                     /\ completion_outcome' = "ContextWindowExceededError"
                     /\ trigger' = "reactive"
               /\ UNCHANGED <<RecoveryCalls, history, messages>>]_vars
    /\ [][pc = "condense"
            => /\ pc' = "condensed"
               /\ condense_calls' = Count(condense_calls)
               /\ UNCHANGED <<splice_calls, render_calls, completion_calls,
                              history, messages>>]_vars
    /\ [][pc = "condensed"
            => /\ \/ pc' = "rerender" /\ splice_calls' = Count(splice_calls)
                  \/ pc' = "raised" /\ splice_calls' = splice_calls
               /\ UNCHANGED <<condense_calls, render_calls,
                              completion_calls, messages>>]_vars
    /\ [][pc = "rerender"
            => /\ pc' = (IF trigger = "preemptive" THEN "check_exit"
                         ELSE "while")
               /\ render_calls' = Count(render_calls)
               /\ messages' = _get_messages(history, iteration,
                                            max_iterations)
               /\ UNCHANGED <<condense_calls, splice_calls,
                              completion_calls, history>>]_vars
    /\ [][(pc \in {"check_exit", "while"})
            => UNCHANGED <<RecoveryCalls, completion_calls, history,
                           messages>>]_vars

\* C13 happens: a completion call is about to be made after a pre-emptive
\* recovery and a recovery from a failed completion call, each with a splice.
C13_Witness ==
    /\ pc = "completion"
    /\ over_limit_calls = 1
    /\ trigger = "reactive"
    /\ completion_calls = 1
    /\ condense_calls = 2
    /\ splice_calls = 2
    /\ render_calls = 3
    /\ history # history0

\* step returned on the exit sentinel: it returned without a completion call
ExitShortCircuit == pc = "returned" /\ completion_calls = 0

\* C14, as claimed: the history is changed only by the splice, right after
\* the summarizer returned a summary; a turn with no overflow trigger, a turn
\* that short-circuits on the exit sentinel and a recovery in which the
\* summarizer returns none leave the history as it was when step was called.
C14_HistoryKeptUnlessSummary ==
    /\ condense_calls = 0 => history = history0
    /\ ExitShortCircuit => history = history0
    /\ error = "ContextWindowLimit" => history = history0

\* C14, amended: the history is changed only by the splice, right after the
\* summarizer returned a summary; a turn in which no splice was made (no
\* overflow trigger, an exit short-circuit with no pre-emptive recovery before
\* it, a first recovery in which the summarizer returns none) leaves the
\* history as it was when step was called, and a recovery in which the
\* summarizer returns none leaves it as it was before that recovery.
C14_OnlySpliceChangesHistory ==
    /\ [][history' # history
            => /\ pc = "condensed"
               /\ summary_action # None
               /\ history' = replace_events_with_summary(history,
                                                         summary_action)
               /\ Len(history') <= Len(history)
               /\ splice_calls' = Count(splice_calls)]_vars
    /\ [][(pc = "condensed" /\ summary_action = None)
            => (history' = history /\ pc' = "raised")]_vars
    /\ [](splice_calls = 0 => history = history0)
    /\ []((condense_calls = 0 /\ ExitShortCircuit) => history = history0)

\* C14 happens: step short-circuited on the exit sentinel after the
\* pre-emptive recovery spliced a summary into the history.
C14_Witness ==
    /\ ExitShortCircuit
    /\ trigger = "preemptive"
    /\ splice_calls = 1
    /\ history # history0
    /\ history = replace_events_with_summary(history0, summary_action)

\* messages holds the rendering of the history as it is now
Fresh == pc \notin {"step", "rerender"}

\* the sentence of the iteration reminder
ReminderLine ==
    "ENVIRONMENT REMINDER: You have " \o ToString(max_iterations - iteration)
    \o " turns left to complete the task."

\* the reminder, as _get_messages appends it
Reminder == <<"\n", "\n", ReminderLine>>

\* the number of times the reminder sentence stands in msgs
RECURSIVE ReminderCount(_)
ReminderCount(msgs) ==
    IF msgs = <<>> THEN 0
    ELSE Cardinality({j \in 1..Len(Head(msgs).content) :
                         Head(msgs).content[j] = ReminderLine})
         + ReminderCount(Tail(msgs))

\* the events step can find in the history: those it was called with and
\* the summary event of a splice
KnownEvents == RenderEvents \cup {SummaryEvent}

\* C15: rendering changes neither the history, nor a field of an event, nor
\* the iteration counters, nor the stored system and example texts;
\* rendering the same state again yields the same messages, with the
\* reminder present once and not accumulated.
C15_RenderingIsPure ==
    /\ [][(pc \in {"step", "rerender"})
            => /\ UNCHANGED <<history, iteration, max_iterations,
                              num_of_chars>>
               /\ render_calls' = Count(render_calls)
               /\ messages' = _get_messages(history', iteration',
                                            max_iterations')]_vars
    /\ [][(pc = "rerender"
           /\ messages = _get_messages(history, iteration, max_iterations))
            => messages' = messages]_vars
    /\ [](\A i \in 1..Len(history) : history[i] \in KnownEvents)
    /\ [](Fresh
            => /\ messages[1] = Message("system", system_message)
               /\ SubSeq(messages[2].content, 1, Len(in_context_example))
                     = in_context_example
               /\ ReminderCount(messages) <= 1
               /\ messages = _get_messages(history, iteration,
                                           max_iterations))

\* C15 happens: step rendered, spliced a summary in the place of the summary
\* event the history began with, and rendered the same history again.
C15_Witness ==
    /\ pc = "check_exit"
    /\ render_calls = 2
    /\ splice_calls = 1
    /\ history = history0
    /\ Len(history) = 2
    /\ history[2].type = "MessageAction"
    /\ ReminderCount(messages) = 1

\* the event variants the renderer maps to a message
MappedActions ==
    {"BrowseInteractiveAction", "CmdRunAction", "IPythonRunCellAction",
     "MessageAction", "AgentSummarizeAction"}
MappedObservations ==
    {"CmdOutputObservation", "IPythonRunCellObservation",
     "BrowserOutputObservation", "SummaryObservation"}
IsMapped(event) == event.type \in MappedActions \cup MappedObservations

\* where the message of the mapped event h[i] stands in the rendering of h
MessageIndex(h, i) == 2 + Cardinality({j \in 1..i : IsMapped(h[j])})

\* a message content without the reminder, when it ends in it
Body(content) ==
    LET n == Len(content)
    IN  IF n >= 3 /\ SubSeq(content, n - 2, n) = Reminder
        THEN SubSeq(content, 1, n - 3)
        ELSE content

\* s.startswith(prefix)
StartsWith(s, prefix) ==
    Len(s) >= Len(prefix) /\ SubSeq(s, 1, Len(prefix)) = prefix

\* the body of the message of an observation, as claimed
ObservationBody(obs) ==
    ObservationPrefix
    \o truncate_observation(obs.content, DefaultMaxChars)
    \o (IF obs.type = "CmdOutputObservation" THEN exit_code_line(obs)
        ELSE <<>>)

\* C16: every rendered observation variant (command, interpreter, browser,
\* summary result) becomes a user message whose body starts with
\* OBSERVATION:\n followed by the length-limited content; only command
\* results carry the trailing exit-status line.
C16_ObservationMessages ==
    Fresh =>
        \A i \in 1..Len(history) :
            history[i].type \in MappedObservations =>
                LET obs == history[i]
                    m == messages[MessageIndex(history, i)]
                IN  /\ m.role = "user"
                    /\ StartsWith(Body(m.content), ObservationPrefix)
                    /\ \/ Body(m.content) = ObservationBody(obs)
                       \/ /\ obs.type = "IPythonRunCellObservation"
                          /\ Contains(obs.content, ImageMarker)

\* the role of the message of a mapped event
ExpectedRole(event) ==
    IF IsAction(event) /\ event.source # "user" THEN "assistant" ELSE "user"

\* the rendered sequence is one system message, the worked-example user
\* message and one message per mapped event, in history order
RenderedInOrder ==
    /\ Len(messages)
          = 2 + Cardinality({i \in 1..Len(history) : IsMapped(history[i])})
    /\ messages[1] = Message("system", system_message)
    /\ messages[2].role = "user"
    /\ Body(messages[2].content) = in_context_example
    /\ \A i \in 1..Len(history) :
          IsMapped(history[i]) =>
              LET m == messages[MessageIndex(history, i)]
              IN  /\ m.role = ExpectedRole(history[i])
                  /\ Body(m.content) = event_message(history[i]).content

\* the last user-role message of the rendered sequence
LastUser == Max({k \in 1..Len(messages) : messages[k].role = "user"})

\* C17, as claimed: the rendered sequence is the system message, the
\* worked-example message and one message per mapped event in history order,
\* of length 2 + the number of mapped events; the reminder is appended to
\* exactly one message, the last user-role message, and every other
\* message is as rendered.
C17_RenderedSequence ==
    Fresh =>
        /\ RenderedInOrder
        /\ ReminderCount(messages) = 1
        /\ messages[LastUser].content
              = Body(messages[LastUser].content) \o Reminder

\* C17, amended: the same sequence; the reminder is appended to exactly one
\* message, the last user-role message, unless the content of that message
\* trims to /exit, and then no message has a reminder.
C17_RenderedSequenceUnlessExit ==
    Fresh =>
        /\ RenderedInOrder
        /\ IF is_exit_message(messages[LastUser].content)
           THEN ReminderCount(messages) = 0
           ELSE /\ ReminderCount(messages) = 1
                /\ messages[LastUser].content
                      = Body(messages[LastUser].content) \o Reminder

\* C17 happens: an unmapped event and an assistant message were rendered,
\* and the reminder is on the worked-example message.
C17_Witness ==
    /\ Fresh
    /\ Len(history) = 2
    /\ history[1] = NullObservation
    /\ history[2].type = "CmdRunAction"
    /\ Len(messages) = 3
    /\ messages[3].role = "assistant"
    /\ messages[2].content = in_context_example \o Reminder

\* C18: num_of_chars changes only on a turn that decodes a completion: a
\* turn that short-circuits on the exit sentinel, a turn that raises
\* ContextWindowLimit and a turn that propagates another completion failure
\* leave it as it was at the call (0 here); a turn that succeeds changes it
\* once, after the last completion call and before decoding.
C18_CharsChangeOnlyOnDecode ==
    /\ [][num_of_chars' # num_of_chars
            => /\ pc = "parse" /\ pc' = "decode"
               /\ completion_outcome = "response"
               /\ action = Unset /\ action' = Unset
               /\ completion_calls' = completion_calls]_vars
    /\ [][(pc \in {"decode", "returned", "raised"})
            => UNCHANGED <<num_of_chars, completion_calls>>]_vars
    /\ [](ExitShortCircuit => num_of_chars = 0)
    /\ [](pc = "raised" => num_of_chars = 0)
    /\ []((pc = "returned" /\ completion_calls >= 1)
            => num_of_chars = sum_len(messages) + len(action_str))

\* C18 happens: a completion call failed, the recovery spliced and
\* re-rendered, the next call succeeded and step returned its action.
C18_Witness ==
    /\ pc = "returned"
    /\ completion_calls = 2
    /\ splice_calls >= 1
    /\ trigger = "reactive"
    /\ action.type = "CmdRunAction"
    /\ num_of_chars = sum_len(messages) + len(action_str)
    /\ num_of_chars > 0

====
